---- MODULE Spec2Model ----
(***************************************************************************)
(* Model of csv_to_wax_json.py: the field parsers (parse_number,           *)
(* build_temp_range, parse_bool, make_id) and the driver main().           *)
(*                                                                         *)
(* A Python str is a sequence of one-character strings.  Two characters    *)
(* that are not ASCII are written by their code point: "U+2212" is the     *)
(* unicode minus sign and "U+00B0" the degree sign.                        *)
(* Python's None is `None` where a str is expected and `NoneV` where a     *)
(* number or a dict is expected.                                           *)
(***************************************************************************)
EXTENDS Integers, Sequences, FiniteSets, TLC

\* ------------------------------------------------------------------------
\* Bounds of the model
\* ------------------------------------------------------------------------
MaxRows == 2        \* rows the reader yields in one run
MaxStrLen == 3      \* length of the exhaustively enumerated cell texts
MaxDigit == 2       \* integer magnitudes 0..MaxDigit in the structured numerals

\* ------------------------------------------------------------------------
\* Python values
\* ------------------------------------------------------------------------
None == <<"None">>
NoneV == [t |-> "None"]
PyInt(n) == [t |-> "int", v |-> n, scale |-> 0]
\* a finite float that is not integral: v / 10^scale, scale > 0, v # 0
PyFloat(v, scale) == [t |-> "float", v |-> v, scale |-> scale]
PyInf(sgn) == [t |-> "inf", v |-> sgn, scale |-> 0]
PyNaN == [t |-> "nan", v |-> 0, scale |-> 0]

Whitespace == {" ", "\t"}
Digits == {"0", "1", "2", "3", "4", "5", "6", "7", "8", "9"}

DigitVal(c) ==
    CASE c = "0" -> 0 [] c = "1" -> 1 [] c = "2" -> 2 [] c = "3" -> 3
      [] c = "4" -> 4 [] c = "5" -> 5 [] c = "6" -> 6 [] c = "7" -> 7
      [] c = "8" -> 8 [] c = "9" -> 9

DigitChar(d) ==
    CASE d = 0 -> "0" [] d = 1 -> "1" [] d = 2 -> "2" [] d = 3 -> "3"
      [] d = 4 -> "4" [] d = 5 -> "5" [] d = 6 -> "6" [] d = 7 -> "7"
      [] d = 8 -> "8" [] d = 9 -> "9"

\* str.lower() on one character
LowerChar(c) ==
    CASE c = "A" -> "a" [] c = "C" -> "c" [] c = "E" -> "e" [] c = "F" -> "f"
      [] c = "I" -> "i" [] c = "J" -> "j" [] c = "L" -> "l" [] c = "N" -> "n"
      [] c = "O" -> "o" [] c = "P" -> "p" [] c = "R" -> "r" [] c = "S" -> "s"
      [] c = "T" -> "t" [] c = "V" -> "v" [] c = "W" -> "w" [] c = "X" -> "x"
      [] OTHER -> c

Lower(s) == [i \in 1..Len(s) |-> LowerChar(s[i])]

RECURSIVE LStrip(_)
LStrip(s) == IF s # <<>> /\ Head(s) \in Whitespace THEN LStrip(Tail(s)) ELSE s

RECURSIVE RStrip(_)
RStrip(s) ==
    IF s # <<>> /\ s[Len(s)] \in Whitespace
    THEN RStrip(SubSeq(s, 1, Len(s) - 1)) ELSE s

\* str.strip()
Strip(s) == RStrip(LStrip(s))

\* str.replace(c, "")
Without(s, cs) == SelectSeq(s, LAMBDA ch : ch \notin cs)

\* str.replace(a, b) for single characters
ReplaceChar(s, a, b) == [i \in 1..Len(s) |-> IF s[i] = a THEN b ELSE s[i]]

AllDigits(s) == \A i \in 1..Len(s) : s[i] \in Digits

RECURSIVE DigitsVal(_)
DigitsVal(s) ==
    IF s = <<>> THEN 0
    ELSE 10 * DigitsVal(SubSeq(s, 1, Len(s) - 1)) + DigitVal(s[Len(s)])

RECURSIVE Pow10(_)
Pow10(k) == IF k = 0 THEN 1 ELSE 10 * Pow10(k - 1)

\* index of the first character of s that is in cs, 0 when there is none
RECURSIVE FirstIn(_, _, _)
FirstIn(s, cs, i) ==
    IF i > Len(s) THEN 0
    ELSE IF s[i] \in cs THEN i ELSE FirstIn(s, cs, i + 1)

\* str(n) for a natural number
RECURSIVE NatToStr(_)
NatToStr(n) ==
    IF n < 10 THEN <<DigitChar(n)>>
    ELSE NatToStr(n \div 10) \o <<DigitChar(n % 10)>>

\* ------------------------------------------------------------------------
\* float(s): the result is ValueError or a float.  A finite float is kept
\* as an exact decimal v / 10^scale in lowest terms of ten.
\* ------------------------------------------------------------------------
ValueError == [t |-> "ValueError", v |-> 0, scale |-> 0]

RECURSIVE Reduce(_, _)
Reduce(v, scale) ==
    IF v = 0 THEN [t |-> "fin", v |-> 0, scale |-> 0]
    ELSE IF scale > 0 /\ v % 10 = 0 THEN Reduce(v \div 10, scale - 1)
    ELSE IF scale < 0 THEN Reduce(v * 10, scale + 1)
    ELSE [t |-> "fin", v |-> v, scale |-> scale]

\* the exponent part after 'e': an optional sign and at least one digit
ExpOk(x) ==
    LET d == IF x # <<>> /\ Head(x) \in {"+", "-"} THEN Tail(x) ELSE x
    IN  d # <<>> /\ AllDigits(d)

ExpVal(x) ==
    IF x # <<>> /\ Head(x) = "-" THEN 0 - DigitsVal(Tail(x))
    ELSE IF x # <<>> /\ Head(x) = "+" THEN DigitsVal(Tail(x))
    ELSE DigitsVal(x)

\* an unsigned decimal numeral: digits [. digits] [e [sign] digits]
ParseDecimal(u) ==
    LET ePos == FirstIn(u, {"e", "E"}, 1)
        mant == IF ePos = 0 THEN u ELSE SubSeq(u, 1, ePos - 1)
        expo == IF ePos = 0 THEN <<>> ELSE SubSeq(u, ePos + 1, Len(u))
        dot  == FirstIn(mant, {"."}, 1)
        ip   == IF dot = 0 THEN mant ELSE SubSeq(mant, 1, dot - 1)
        fp   == IF dot = 0 THEN <<>> ELSE SubSeq(mant, dot + 1, Len(mant))
    IN  IF /\ AllDigits(ip) /\ AllDigits(fp) /\ Len(ip) + Len(fp) >= 1
           /\ (ePos # 0 => ExpOk(expo))
        THEN Reduce(DigitsVal(ip \o fp),
                    Len(fp) - (IF ePos = 0 THEN 0 ELSE ExpVal(expo)))
        ELSE ValueError

PyFloatOf(s) ==
    LET t   == Strip(s)
        neg == t # <<>> /\ Head(t) = "-"
        u   == IF t # <<>> /\ Head(t) \in {"+", "-"} THEN Tail(t) ELSE t
        sgn == IF neg THEN 0 - 1 ELSE 1
    IN  IF Lower(u) \in {<<"i", "n", "f">>,
                         <<"i", "n", "f", "i", "n", "i", "t", "y">>}
        THEN [t |-> "inf", v |-> sgn, scale |-> 0]
        ELSE IF Lower(u) = <<"n", "a", "n">>
        THEN [t |-> "nan", v |-> 0, scale |-> 0]
        ELSE LET d == ParseDecimal(u)
             IN  IF d.t = "fin" THEN [d EXCEPT !.v = sgn * d.v] ELSE d

\* float.is_integer()
IsInteger(f) == f.t = "fin" /\ f.scale = 0

\* ------------------------------------------------------------------------
\* The field parsers
\* ------------------------------------------------------------------------
\* parse_number without the is_integer() branch
parse_number_KeepsFloat(value) ==
    IF value = None THEN NoneV
    ELSE LET s0 == Strip(value) IN
         IF s0 = <<>> THEN NoneV
         ELSE LET s1  == ReplaceChar(s0, "U+2212", "-")
                  s2  == Without(Without(Without(s1, {"U+00B0"}), {"C"}), {"c"})
                  s3  == ReplaceChar(s2, ",", ".")
                  num == PyFloatOf(s3)
              IN  IF num.t = "ValueError" THEN NoneV
                  ELSE IF num.t = "fin" THEN PyFloat(num.v, num.scale)
                  ELSE num

parse_number(value) ==
    IF value = None THEN NoneV
    ELSE LET s0 == Strip(value) IN
         IF s0 = <<>> THEN NoneV
         ELSE LET s1  == ReplaceChar(s0, "U+2212", "-")
                  s2  == Without(Without(Without(s1, {"U+00B0"}), {"C"}), {"c"})
                  s3  == ReplaceChar(s2, ",", ".")
                  num == PyFloatOf(s3)
              IN  IF num.t = "ValueError" THEN NoneV
                  ELSE IF IsInteger(num) THEN PyInt(num.v)
                  ELSE IF num.t = "fin" THEN PyFloat(num.v, num.scale)
                  ELSE num

\* build_temp_range without the both-missing test
build_temp_range_AlwaysDict(min_val, max_val) ==
    [min |-> min_val, max |-> max_val]

build_temp_range(min_val, max_val) ==
    IF min_val = NoneV /\ max_val = NoneV THEN NoneV
    ELSE [min |-> min_val, max |-> max_val]

NegativeTokens ==
    {<<"n", "o">>, <<"n", "e", "j">>, <<"f", "a", "l", "s", "e">>, <<"0">>}

\* parse_bool without lower()
parse_bool_CaseSensitive(value) ==
    IF value = None THEN TRUE
    ELSE IF Strip(value) \in NegativeTokens THEN FALSE
    ELSE TRUE

parse_bool(value) ==
    IF value = None THEN TRUE
    ELSE IF Lower(Strip(value)) \in NegativeTokens THEN FALSE
    ELSE TRUE

\* x or "" for a str-or-None x
OrEmpty(x) == IF x = None \/ x = <<>> THEN <<>> ELSE x

\* make_id testing the brand where it should test the code
make_id_TestsBrand(brand, code) ==
    LET b == Without(Lower(Strip(OrEmpty(brand))), {" "})
        c == Without(Lower(Strip(OrEmpty(code))), {" "})
    IN  IF b = <<>> /\ c = <<>> THEN None
        ELSE IF b = <<>> THEN c
        ELSE b \o <<"_">> \o c

make_id(brand, code) ==
    LET b == Without(Lower(Strip(OrEmpty(brand))), {" "})
        c == Without(Lower(Strip(OrEmpty(code))), {" "})
    IN  IF b = <<>> /\ c = <<>> THEN None
        ELSE IF c = <<>> THEN b
        ELSE b \o <<"_">> \o c

\* ------------------------------------------------------------------------
\* Rows of csv.DictReader: a dict from the header's columns to cells.  A
\* cell is a str, or None when the row is shorter than the header.
\* ------------------------------------------------------------------------
\* row.get(key, default)
Get(row, key, default) == IF key \in DOMAIN row THEN row[key] ELSE default

\* x or y
Or(x, y) == IF x = None \/ x = <<>> THEN y ELSE x

\* int(x) for a number x that is not None: truncation towards zero
IntOf(x) ==
    IF x.t = "inf" THEN [exc |-> "OverflowError", v |-> 0]
    ELSE IF x.t = "nan" THEN [exc |-> "ValueError", v |-> 0]
    ELSE IF x.v >= 0 THEN [exc |-> "", v |-> x.v \div Pow10(x.scale)]
    ELSE [exc |-> "", v |-> 0 - ((0 - x.v) \div Pow10(x.scale))]

SegmentOf(row) ==
    LET segment_raw == Or(Or(Get(row, "Race/Training", <<>>),
                             Get(row, "race_training", <<>>)), <<>>)
        segment == Lower(Strip(segment_raw))
    IN  IF segment \in {<<"r", "a", "c", "e">>, <<"r">>}
        THEN <<"r", "a", "c", "e">>
        ELSE IF segment \in {<<"t", "r", "a", "i", "n", "i", "n", "g">>,
                             <<"t", "o", "u", "r", "i", "n", "g">>, <<"t">>}
        THEN <<"t", "r", "a", "i", "n", "i", "n", "g">>
        ELSE <<>>

TempRangesOf(row) ==
    LET t_new_min == parse_number(Get(row, "temp_new_min", None))
        t_new_max == parse_number(Get(row, "temp_new_max", None))
        t_old_min == parse_number(Get(row, "temp_old_min", None))
        t_old_max == parse_number(Get(row, "temp_old_max", None))
        t_wet_min == parse_number(Get(row, "temp_wet_min", None))
        t_wet_max == parse_number(Get(row, "temp_wet_max", None))
    IN  [new |-> build_temp_range(t_new_min, t_new_max),
         old |-> build_temp_range(t_old_min, t_old_max),
         wet |-> build_temp_range(t_wet_min, t_wet_max)]

\* the cells main() calls .strip() on without a guard against None
StrippedColumns ==
    <<"brand", "line", "code", "product_name", "type", "image_file">>

\* the exception the loop body raises on the row, "" when it raises none
RowException(row) ==
    IF \E i \in 1..Len(StrippedColumns) :
            Get(row, StrippedColumns[i], <<>>) = None
    THEN "AttributeError"
    ELSE LET priority_val == parse_number(Get(row, "priority", None))
         IN  IF priority_val = NoneV THEN "" ELSE IntOf(priority_val).exc

\* the fallback id numbered from 0
FallbackId_FromZero(products) ==
    <<"p", "r", "o", "d", "_">> \o NatToStr(Len(products))

\* f"prod_{len(products)+1}"
FallbackId(products) == <<"p", "r", "o", "d", "_">> \o NatToStr(Len(products) + 1)

\* the "Skip completely empty rows" test
IsSkipped(row) ==
    /\ Strip(Get(row, "brand", <<>>)) = <<>>
    /\ Strip(Get(row, "code", <<>>)) = <<>>
    /\ Strip(Get(row, "product_name", <<>>)) = <<>>

\* the dict main() appends for a row that raises nothing and is not skipped
RecordOf(row, products) ==
    LET brand == Strip(Get(row, "brand", <<>>))
        line == Strip(Get(row, "line", <<>>))
        code == Strip(Get(row, "code", <<>>))
        product_name == Strip(Get(row, "product_name", <<>>))
        wax_type == Or(Lower(Strip(Get(row, "type", <<>>))),
                       <<"h", "a", "r", "d", "w", "a", "x">>)
        notes_raw == Or(Get(row, "notes", <<>>), <<>>)
        image_file == Or(Strip(Get(row, "image_file", <<>>)), None)
        priority_val == parse_number(Get(row, "priority", None))
    IN  [id |-> Or(make_id(brand, code), FallbackId(products)),
         brand |-> brand,
         line |-> line,
         code |-> code,
         product |-> Or(product_name, Strip(brand \o <<" ">> \o code)),
         type |-> wax_type,
         segment |-> SegmentOf(row),
         temp_ranges |-> TempRangesOf(row),
         priority |-> IF priority_val # NoneV THEN IntOf(priority_val).v ELSE 70,
         notes |-> IF Strip(notes_raw) # <<>> THEN <<Strip(notes_raw)>> ELSE <<>>,
         imageFile |-> image_file,
         active |-> parse_bool(Get(row, "active", None))]

\* the filter collecting the kept products last to first
RECURSIVE ActiveIndices_Reversed(_, _)
ActiveIndices_Reversed(products, i) ==
    IF i > Len(products) THEN <<>>
    ELSE IF products[i].active
         THEN ActiveIndices_Reversed(products, i + 1) \o <<i>>
         ELSE ActiveIndices_Reversed(products, i + 1)

\* indices of the products the final filter keeps, in order
RECURSIVE ActiveIndices(_, _)
ActiveIndices(products, i) ==
    IF i > Len(products) THEN <<>>
    ELSE IF products[i].active
         THEN <<i>> \o ActiveIndices(products, i + 1)
         ELSE ActiveIndices(products, i + 1)

\* main() without the test for the input file
ExistsCheck_Omitted(exists) == TRUE

\* CSV_PATH.exists()
ExistsCheck(exists) == exists

\* ------------------------------------------------------------------------
\* State
\* ------------------------------------------------------------------------
VARIABLES
    fn,              \* function under call: "parse_number", "make_id", "main"
    args,            \* arguments of a parser called on its own
    ret,             \* its return value, once returned
    returned,        \* TRUE once that call has returned
    pc,              \* position of main()
    inputExists,     \* CSV_PATH exists
    header,          \* reader.fieldnames
    rows,            \* the rows the reader has yielded so far
    products,        \* main's list products
    origin,          \* origin[i]: index in rows of the row products[i] is from
    active_products, \* main's list active_products
    outOrigin,       \* as origin, for active_products
    outFile0,        \* OUT_JSON_PATH before the run
    outFile,         \* OUT_JSON_PATH
    exc              \* the exception that ended the run, "" when none

parserVars == <<fn, args, ret, returned>>
mainVars == <<pc, inputExists, header, rows, products, origin,
              active_products, outOrigin, outFile0, outFile, exc>>
vars == <<parserVars, mainVars>>

Absent == [state |-> "absent"]
OldFile == [state |-> "old"]
Truncated == [state |-> "truncated"]
Document(wax_data) == [state |-> "document", doc |-> wax_data]

\* main() before its first statement
MainStart ==
    /\ pc = "start"
    /\ header = <<>>
    /\ rows = <<>>
    /\ products = <<>>
    /\ origin = <<>>
    /\ active_products = <<>>
    /\ outOrigin = <<>>
    /\ exc = ""

\* ------------------------------------------------------------------------
\* Inputs of the parsers
\* ------------------------------------------------------------------------
RECURSIVE StringsUpTo(_, _)
StringsUpTo(alphabet, n) ==
    IF n = 0 THEN {<<>>}
    ELSE LET shorter == StringsUpTo(alphabet, n - 1)
         IN  shorter \cup {Append(s, c) : s \in shorter, c \in alphabet}

NumAlphabet == {"0", "5", "-", "U+2212", ",", ".", "U+00B0", "C", " "}

Signs == {<<>>, <<"-">>, <<"U+2212">>, <<"+">>}
ZeroFractions == {<<>>, <<",">>, <<".">>, <<",", "0">>, <<".", "0">>}
Suffixes ==
    {<<>>, <<"U+00B0">>, <<"C">>, <<"U+00B0", "C">>, <<" ", "U+00B0", "C">>}

\* an integer-valued numeral: sign, digits, a zero fraction, a unit suffix
Numeral(sg, n, fr, sf) == sg \o NatToStr(n) \o fr \o sf

MaxInt == 10 + MaxDigit

IntegerTexts ==
    {Numeral(sg, n, fr, sf) :
        sg \in Signs, n \in 0..MaxInt, fr \in ZeroFractions, sf \in Suffixes}

NumberExamples ==
    { None,
      <<"U+2212", "5", ",", "0", "U+00B0", "C">>,
      <<"1", "2", ".", "5">>,
      <<"1", ",", "5">>,
      <<"-", "0", ".", "2", "5", "0">>,
      <<"a", "b", "c">>,
      <<"i", "n", "f">>, <<"-", "I", "n", "f">>, <<"n", "a", "n">>,
      <<"i", "n", "f", "i", "n", "i", "t", "y">>,
      <<"1", "e", "2">>, <<"5", "E", "-", "1">>, <<"e", "1">>, <<"1", "e">>,
      <<"\t", "5", "\t">>,
      <<"U+2212", " ", "5">>,
      <<"c", "c", "5">> }

NumberInputs ==
    StringsUpTo(NumAlphabet, MaxStrLen) \cup IntegerTexts \cup NumberExamples

IdAlphabet == {"S", "w", " ", "\t"}

\* main() passes make_id the stripped brand and code cells
IdTexts ==
    {Strip(s) : s \in StringsUpTo(IdAlphabet, MaxStrLen)}
        \cup {<<"S", "w", "i", "x">>, <<"V", "P", "3", "0">>}

IdInputs == IdTexts \X IdTexts

\* ------------------------------------------------------------------------
\* The parsers called on their own
\* ------------------------------------------------------------------------
InitParsers ==
    /\ \/ fn = "parse_number" /\ args \in {<<s>> : s \in NumberInputs}
       \/ fn = "make_id" /\ args \in IdInputs
    /\ ret = NoneV
    /\ returned = FALSE
    /\ MainStart
    /\ inputExists = TRUE
    /\ outFile0 = Absent
    /\ outFile = Absent

CallParseNumber ==
    /\ fn = "parse_number" /\ ~returned
    /\ ret' = parse_number(args[1])
    /\ returned' = TRUE
    /\ UNCHANGED <<fn, args, mainVars>>

CallMakeId ==
    /\ fn = "make_id" /\ ~returned
    /\ ret' = make_id(args[1], args[2])
    /\ returned' = TRUE
    /\ UNCHANGED <<fn, args, mainVars>>

NextParsers == CallParseNumber \/ CallMakeId

SpecParsers == InitParsers /\ [][NextParsers]_vars

\* ------------------------------------------------------------------------
\* C7: parse_number
\* ------------------------------------------------------------------------
\* the normalization as the claim words it
C7Normalized(s) ==
    ReplaceChar(
        Without(ReplaceChar(Strip(s), "U+2212", "-"), {"U+00B0", "C", "c"}),
        ",", ".")

\* a signed decimal numeral without exponent, surrounding blanks allowed
C7IsDecimal(s) ==
    LET t == Strip(s)
        u == IF t # <<>> /\ Head(t) \in {"+", "-"} THEN Tail(t) ELSE t
    IN  /\ \E i \in 1..Len(u) : u[i] \in Digits
        /\ \A i \in 1..Len(u) : u[i] \in Digits \cup {"."}
        /\ Cardinality({i \in 1..Len(u) : u[i] = "."}) <= 1

C7Plain(s) == s # None /\ \A i \in 1..Len(s) : s[i] \in NumAlphabet \cup Digits \cup {"+", "\t", "c"}

C7Negative(sg) == sg \in {<<"-">>, <<"U+2212">>}

HeaderFull ==
    <<"brand", "line", "Race/Training", "race_training", "code",
      "product_name", "type", "temp_new_min", "temp_new_max", "temp_old_min",
      "temp_old_max", "temp_wet_min", "temp_wet_max", "notes", "image_file",
      "priority", "active">>

\* a file without most of the expected columns
HeaderSmall ==
    <<"code", "product_name", "race_training", "temp_new_min", "active">>

Headers == {HeaderFull, HeaderSmall}

BaseCells ==
    "brand" :> <<"S", "w">> @@ "line" :> <<"V">> @@
    "Race/Training" :> <<>> @@ "race_training" :> <<>> @@
    "code" :> <<"3">> @@ "product_name" :> <<>> @@ "type" :> <<>> @@
    "temp_new_min" :> <<"-", "5">> @@
    "temp_new_max" :> <<"U+2212", "2", " ", "U+00B0", "C">> @@
    "temp_old_min" :> <<"1", ",", "5">> @@ "temp_old_max" :> <<>> @@
    "temp_wet_min" :> <<>> @@ "temp_wet_max" :> <<>> @@
    "notes" :> <<>> @@ "image_file" :> <<>> @@
    "priority" :> <<>> @@ "active" :> <<>>

\* brand, code, product_name and active: blank rows, rows without brand or
\* code, inactive rows
IdentityCells ==
    {[BaseCells EXCEPT !["brand"] = x[1], !["code"] = x[2],
                       !["product_name"] = x[3], !["active"] = x[4]] :
        x \in {<<<<>>, <<" ">>, <<>>, <<>>>>,
               <<<<>>, <<" ">>, <<>>, <<"N", "o", " ">>>>,
               <<<<"S", "w">>, <<"3">>, <<>>, <<"N", "o", " ">>>>,
               <<<<>>, <<" ">>, <<"P">>, <<"y", "e", "s">>>>,
               <<<<>>, <<" ">>, <<"P">>, <<"n", "o">>>>,
               <<<<"S", "w">>, <<" ">>, <<>>, <<>>>>,
               <<<<>>, <<"V", " ", "3">>, <<>>, <<>>>>,
               <<<<" ", "S", " ", "W">>, <<"V", " ", "3">>, <<"P">>, <<>>>>,
               <<<<"p", "r", "o", "d">>, <<"2">>, <<>>, <<>>>>}}

ActiveCells ==
    {[BaseCells EXCEPT !["active"] = a] :
        a \in {<<" ", "N", "E", "J">>, <<"F", "a", "l", "s", "e">>, <<"0">>,
               <<"0", "0">>, <<"\t", "n", "o", "\t">>}}

SegmentCells ==
    {[BaseCells EXCEPT !["Race/Training"] = x[1], !["race_training"] = x[2]] :
        x \in {<<<<>>, <<"T">>>>,
               <<<<" ">>, <<"T">>>>,
               <<<<"R">>, <<"T">>>>,
               <<<<"x">>, <<"T">>>>,
               <<<<>>, <<"T", "o", "u", "r", "i", "n", "g">>>>,
               <<<<>>, <<" ", "r", "a", "c", "e">>>>,
               <<<<"t", "r", "a", "i", "n", "i", "n", "g">>, <<>>>>}}

TempCells ==
    {[BaseCells EXCEPT !["temp_new_min"] = x[1], !["temp_new_max"] = x[2],
                       !["temp_old_min"] = <<>>] :
        x \in {<<<<>>, <<" ">>>>,
               <<<<"-", "5">>, <<" ">>>>,
               <<<<"x">>, <<"2", ",", "0">>>>,
               <<<<>>, <<"i", "n", "f">>>>}}

PriorityCells ==
    {[BaseCells EXCEPT !["priority"] = x] :
        x \in {<<"5", "0">>, <<"-", "1", ",", "5">>,
               <<"i", "n", "f">>, <<"n", "a", "n">>, <<"x">>}}

OtherCells ==
    {[BaseCells EXCEPT !["type"] = <<"K", "l", "i", "s", "t", "e", "r">>,
                       !["notes"] = <<" ", "n", " ">>,
                       !["image_file"] = <<"i", ".", "p", "n", "g">>],
     [BaseCells EXCEPT !["type"] = <<" ">>, !["notes"] = <<" ">>,
                       !["image_file"] = <<" ">>]}

FullCells ==
    IdentityCells \cup ActiveCells \cup SegmentCells \cup TempCells
        \cup PriorityCells \cup OtherCells

Position(hdr, col) == CHOOSE i \in 1..Len(hdr) : hdr[i] = col

\* the dict DictReader builds from a row with n cells: the columns past
\* the row's last cell get restval, None
DictRow(hdr, cells, n) ==
    [col \in {hdr[i] : i \in 1..Len(hdr)} |->
        IF Position(hdr, col) <= n THEN cells[col] ELSE None]

ShortLengths(hdr) == {1, Len(hdr) - 4, Len(hdr) - 2} \cap (1..(Len(hdr) - 1))

RowsWith(hdr) ==
    {DictRow(hdr, cells, Len(hdr)) : cells \in FullCells}
        \cup {DictRow(hdr, BaseCells, n) : n \in ShortLengths(hdr)}

RowsFull == RowsWith(HeaderFull)
RowsSmall == RowsWith(HeaderSmall)

\* the rows a file with this header can hold
RowsOf(hdr) == IF hdr = HeaderFull THEN RowsFull ELSE RowsSmall

\* ------------------------------------------------------------------------
\* main()
\* ------------------------------------------------------------------------
Init ==
    /\ fn = "main" /\ args = <<>> /\ ret = NoneV /\ returned = FALSE
    /\ MainStart
    /\ inputExists \in BOOLEAN
    /\ outFile0 \in {Absent, OldFile}
    /\ outFile = outFile0

Raise(e) == pc' = "aborted" /\ exc' = e

\* if not CSV_PATH.exists(): raise FileNotFoundError
CheckExists ==
    /\ fn = "main" /\ pc = "start"
    /\ IF ExistsCheck(inputExists)
       THEN pc' = "open_input" /\ exc' = exc
       ELSE Raise("FileNotFoundError")
    /\ UNCHANGED <<parserVars, inputExists, header, rows, products, origin,
                   active_products, outOrigin, outFile0, outFile>>

\* open the file, sniff the dialect, create the reader
OpenInput ==
    /\ fn = "main" /\ pc = "open_input"
    /\ IF ~inputExists
       THEN Raise("FileNotFoundError") /\ header' = header
       ELSE \/ Raise("csv.Error") /\ header' = header
            \/ /\ header' \in Headers
               /\ pc' = "rows" /\ exc' = exc
    /\ UNCHANGED <<parserVars, inputExists, rows, products, origin,
                   active_products, outOrigin, outFile0, outFile>>

\* one iteration of "for row in reader"
ProcessRow ==
    /\ fn = "main" /\ pc = "rows" /\ Len(rows) < MaxRows
    /\ \E row \in RowsOf(header) :
        /\ rows' = Append(rows, row)
        /\ IF RowException(row) # ""
           THEN Raise(RowException(row)) /\ UNCHANGED <<products, origin>>
           ELSE /\ pc' = pc /\ exc' = exc
                /\ IF IsSkipped(row)
                   THEN UNCHANGED <<products, origin>>
                   ELSE /\ products' = Append(products, RecordOf(row, products))
                        /\ origin' = Append(origin, Len(rows) + 1)
    /\ UNCHANGED <<parserVars, inputExists, header, active_products,
                   outOrigin, outFile0, outFile>>

\* the reader is exhausted: filter the active products
FilterActive ==
    /\ fn = "main" /\ pc = "rows"
    /\ LET kept == ActiveIndices(products, 1) IN
        /\ active_products' = [j \in 1..Len(kept) |-> products[kept[j]]]
        /\ outOrigin' = [j \in 1..Len(kept) |-> origin[kept[j]]]
    /\ pc' = "open_output"
    /\ UNCHANGED <<parserVars, inputExists, header, rows, products, origin,
                   outFile0, outFile, exc>>

\* OUT_JSON_PATH.open("w")
OpenOutput ==
    /\ fn = "main" /\ pc = "open_output"
    /\ outFile' = Truncated
    /\ pc' = "dump"
    /\ UNCHANGED <<parserVars, inputExists, header, rows, products, origin,
                   active_products, outOrigin, outFile0, exc>>

\* json.dump(wax_data, out_f) and the end of the with block
JsonDump ==
    /\ fn = "main" /\ pc = "dump"
    /\ outFile' = Document([version |-> "2.0",
                            scope |-> "Classic grip - new/old/wet",
                            products |-> active_products])
    /\ pc' = "print"
    /\ UNCHANGED <<parserVars, inputExists, header, rows, products, origin,
                   active_products, outOrigin, outFile0, exc>>

PrintSummary ==
    /\ fn = "main" /\ pc = "print"
    /\ pc' = "done"
    /\ UNCHANGED <<parserVars, inputExists, header, rows, products, origin,
                   active_products, outOrigin, outFile0, outFile, exc>>

Next ==
    \/ CheckExists
    \/ OpenInput
    \/ ProcessRow
    \/ FilterActive
    \/ OpenOutput
    \/ JsonDump
    \/ PrintSummary

Spec == Init /\ [][Next]_vars

\* ------------------------------------------------------------------------
\* Properties of main()
\* ------------------------------------------------------------------------
HasDocument == outFile.state = "document"
OutProducts == outFile.doc.products

AllBlank(s) == \A i \in 1..Len(s) : s[i] \in Whitespace

\* brand, code and product_name are all blank after trimming
BlankRow(row) ==
    /\ AllBlank(Get(row, "brand", <<>>))
    /\ AllBlank(Get(row, "code", <<>>))
    /\ AllBlank(Get(row, "product_name", <<>>))

\* the row's active field, trimmed and lower-cased, is a negative token
InactiveRow(row) ==
    /\ "active" \in DOMAIN row
    /\ row["active"] # None
    /\ Lower(Strip(row["active"])) \in
          {<<"n", "o">>, <<"n", "e", "j">>, <<"f", "a", "l", "s", "e">>, <<"0">>}

IsBlankInactive(row) == BlankRow(row) /\ InactiveRow(row)
IsLiveInactive(row) == ~BlankRow(row) /\ InactiveRow(row)

BlankRows == {i \in 1..Len(rows) : BlankRow(rows[i])}
InactiveRows == {i \in 1..Len(rows) : InactiveRow(rows[i])}
LiveInactiveRows == {i \in 1..Len(rows) : IsLiveInactive(rows[i])}

\* indices of the rows that are neither blank nor inactive, ascending
RECURSIVE ExpectedOrigin(_)
ExpectedOrigin(i) ==
    IF i > Len(rows) THEN <<>>
    ELSE IF ~BlankRow(rows[i]) /\ ~InactiveRow(rows[i])
         THEN <<i>> \o ExpectedOrigin(i + 1)
         ELSE ExpectedOrigin(i + 1)

BuiltFrom(p, row) ==
    /\ p.brand = Strip(Get(row, "brand", <<>>))
    /\ p.line = Strip(Get(row, "line", <<>>))
    /\ p.code = Strip(Get(row, "code", <<>>))

\* C1 as stated: N rows, K blank rows, M rows with active=false give
\* exactly N - K - M records in the output, in the order of their rows.
C1_AsStated ==
    HasDocument =>
        /\ Len(OutProducts) =
              Len(rows) - Cardinality(BlankRows) - Cardinality(InactiveRows)
        /\ outOrigin = ExpectedOrigin(1)

\* C1 amended: the output holds exactly N - K - M records, in the order of
\* their rows, where K counts the blank rows and M the rows that are not
\* blank and have active=false.
C1_RecordCount ==
    HasDocument =>
        /\ Len(OutProducts) =
              Len(rows) - Cardinality(BlankRows) - Cardinality(LiveInactiveRows)
        /\ outOrigin = ExpectedOrigin(1)
        /\ \A j \in 1..Len(OutProducts) :
              BuiltFrom(OutProducts[j], rows[outOrigin[j]])

C1_Witness ==
    /\ pc = "done"
    /\ Len(rows) = 2
    /\ IsBlankInactive(rows[1])
    /\ Len(OutProducts) = 1

\* C2: a record built from a row is in the output document iff the row's
\* active field, trimmed and lower-cased, is not "no", "nej", "false" or
\* "0"; every record in the output has active = TRUE.
C2_ActiveFilter ==
    HasDocument =>
        /\ \A k \in 1..Len(products) :
              (\E j \in 1..Len(OutProducts) :
                    outOrigin[j] = origin[k] /\ OutProducts[j] = products[k])
                <=> ~InactiveRow(rows[origin[k]])
        /\ \A j \in 1..Len(OutProducts) : OutProducts[j].active = TRUE
        /\ \A j \in 1..Len(OutProducts) : \E k \in 1..Len(products) :
              outOrigin[j] = origin[k]

C2_Witness ==
    /\ HasDocument
    /\ Len(rows) = 2
    /\ Get(rows[1], "active", <<>>) = <<" ", "N", "E", "J">>
    /\ Get(rows[2], "active", <<>>) = <<"0", "0">>
    /\ Len(products) = 2
    /\ outOrigin = <<2>>

\* C3: processing a row never raises: the only exceptions that end a run
\* are those of the missing input file and of the reader's creation.
C3_RowNeverRaises ==
    pc = "aborted" => exc \in {"FileNotFoundError", "csv.Error"}

\* C4: a run writes a complete document or aborts before writing: a
\* missing input file aborts the run at once and leaves the output file as
\* it was, and no run aborts once the output file has been opened.
C4_AllOrNothing ==
    /\ pc = "aborted" => outFile = outFile0
    /\ ~inputExists =>
          \/ pc = "start"
          \/ pc = "aborted" /\ exc = "FileNotFoundError"
    /\ outFile # outFile0 => pc \in {"dump", "print", "done"}
    /\ pc = "done" => HasDocument /\ OutProducts = active_products

C4_Witness ==
    /\ pc = "aborted"
    /\ ~inputExists
    /\ outFile0 = OldFile
    /\ outFile = OldFile

\* records produced from the rows before row i
ProducedBefore(i) == Cardinality({j \in 1..(i - 1) : ~BlankRow(rows[j])})

\* C5: a record's id is makeId(brand, code) when that is not null, and
\* otherwise "prod_" followed by 1 plus the number of records produced from
\* earlier rows, inactive ones included, skipped blank rows not.
C5_RecordId ==
    \A k \in 1..Len(products) :
        LET row == rows[origin[k]]
            m == make_id(Strip(Get(row, "brand", <<>>)),
                         Strip(Get(row, "code", <<>>)))
        IN  products[k].id =
                IF m # None THEN m
                ELSE <<"p", "r", "o", "d", "_">>
                        \o NatToStr(1 + ProducedBefore(origin[k]))

C5_Witness ==
    /\ Len(rows) = 2 /\ Len(products) = 2
    /\ ~products[1].active
    /\ products[2].id = <<"p", "r", "o", "d", "_", "2">>

TempColumns(k) ==
    CASE k = "new" -> <<"temp_new_min", "temp_new_max">>
      [] k = "old" -> <<"temp_old_min", "temp_old_max">>
      [] k = "wet" -> <<"temp_wet_min", "temp_wet_max">>

\* C8: temp_ranges has exactly the keys new, old and wet; each value is
\* null or a {min, max} range with a non-null endpoint; two null endpoints
\* give null, one known endpoint keeps the other as null.
C8_TempRanges ==
    \A k \in 1..Len(products) :
        LET tr == products[k].temp_ranges
            row == rows[origin[k]]
        IN  /\ DOMAIN tr = {"new", "old", "wet"}
            /\ \A key \in DOMAIN tr :
                LET lo == parse_number(Get(row, TempColumns(key)[1], None))
                    hi == parse_number(Get(row, TempColumns(key)[2], None))
                IN  /\ \/ tr[key] = NoneV
                       \/ /\ DOMAIN tr[key] = {"min", "max"}
                          /\ ~(tr[key].min = NoneV /\ tr[key].max = NoneV)
                    /\ (lo = NoneV /\ hi = NoneV) => tr[key] = NoneV
                    /\ (lo # NoneV \/ hi # NoneV) =>
                          tr[key] # NoneV /\ tr[key].min = lo /\ tr[key].max = hi

C8_Witness ==
    /\ Len(products) = 2
    /\ products[1].temp_ranges.new = NoneV
    /\ products[2].temp_ranges.new = [min |-> PyInt(0 - 5), max |-> NoneV]
    /\ products[2].temp_ranges.wet = NoneV

\* the segment column yields no value: absent, None, empty or blank
NoValue(row, col) ==
    \/ col \notin DOMAIN row
    \/ row[col] = None
    \/ AllBlank(row[col])

SegmentMap(x) ==
    IF x \in {<<"r", "a", "c", "e">>, <<"r">>} THEN <<"r", "a", "c", "e">>
    ELSE IF x \in {<<"t", "r", "a", "i", "n", "i", "n", "g">>,
                   <<"t", "o", "u", "r", "i", "n", "g">>, <<"t">>}
    THEN <<"t", "r", "a", "i", "n", "i", "n", "g">>
    ELSE <<>>

\* C9: the segment is read from "Race/Training" and, when that is blank
\* (empty or whitespace only), from "race_training"; trimmed, lower-cased
\* and mapped to "race", "training" or "".
C9_Segment ==
    \A k \in 1..Len(products) :
        LET row == rows[origin[k]]
            chosen == IF ~NoValue(row, "Race/Training")
                      THEN row["Race/Training"]
                      ELSE IF ~NoValue(row, "race_training")
                      THEN row["race_training"]
                      ELSE <<>>
        IN  /\ products[k].segment = SegmentMap(Lower(Strip(chosen)))
            /\ products[k].segment \in
                  {<<"r", "a", "c", "e">>,
                   <<"t", "r", "a", "i", "n", "i", "n", "g">>, <<>>}

\* C10: no two records of the output document have the same id.
C10_UniqueIds ==
    HasDocument =>
        \A i, j \in 1..Len(OutProducts) :
            i # j => OutProducts[i].id # OutProducts[j].id

\* ------------------------------------------------------------------------
\* C6: make_id
\* ------------------------------------------------------------------------
C6Normalized(x) == Without(Lower(x), {" "})

\* C6: make_id lower-cases brand and code and removes their spaces; it
\* returns None exactly when both results are empty, the brand alone when
\* only the code is empty, and brand + "_" + code otherwise.
C6_MakeId ==
    (fn = "make_id" /\ returned) =>
        LET b == C6Normalized(args[1])
            c == C6Normalized(args[2])
        IN  /\ ret = None <=> (b = <<>> /\ c = <<>>)
            /\ (b # <<>> /\ c = <<>>) => ret = b
            /\ c # <<>> => ret = b \o <<"_">> \o c

C6_Witness ==
    /\ fn = "make_id" /\ returned
    /\ args = << <<"S", "w", "i", "x">>, <<"V", "P", "3", "0">> >>
    /\ ret = <<"s", "w", "i", "x", "_", "v", "p", "3", "0">>
====
